---------------------------- MODULE Spec2Model ----------------------------
(***************************************************************************)
(* The two lab-cleanup notebooks of the bootcamp repository:               *)
(*   Lab 00 - Delta/Utils/cleanup-delta-lab-env.py            ("lab00")    *)
(*   Lab 01 - Data Engineering/Utils/cleanup-lab-environment.py ("lab01")  *)
(* Each notebook is a straight-line Python program.  A run executes its    *)
(* statements in order; an exception raised by a statement ends the run.   *)
(* Strings are sequences of one-character strings, so that split, replace  *)
(* and f-string interpolation are computed character by character.         *)
(* The storage (dbutils.fs) and the catalog (spark.sql) are the notebook's *)
(* collaborators; they are modelled from their interface contract.         *)
(***************************************************************************)
EXTENDS Integers, Sequences, FiniteSets, TLC

\* ------------------------------------------------------------- bounds

\* Identities have 1..MaxLen characters.
MaxLen == 3
\* A notebook is run at most MaxRuns times in a row.
MaxRuns == 2

\* The characters identities are made of: a letter, the dot, the at sign.
Alphabet == {"a", ".", "@"}

RECURSIVE StringsOfLen(_)
StringsOfLen(n) ==
    IF n = 0 THEN {<<>>}
    ELSE {Append(s, c) : s \in StringsOfLen(n - 1), c \in Alphabet}

StringsUpTo(n) == UNION {StringsOfLen(k) : k \in 1..n}

Identities == StringsUpTo(MaxLen)

Procs == {1, 2}

\* ------------------------------------------------- string primitives

StartsWith(s, pre) ==
    /\ Len(pre) <= Len(s)
    /\ SubSeq(s, 1, Len(pre)) = pre

EndsWith(s, suf) ==
    /\ Len(suf) <= Len(s)
    /\ SubSeq(s, Len(s) - Len(suf) + 1, Len(s)) = suf

\* The index of the first occurrence of character c in s, 0 when there is none.
RECURSIVE FindFrom(_, _, _)
FindFrom(s, c, i) ==
    IF i > Len(s) THEN 0
    ELSE IF s[i] = c THEN i
    ELSE FindFrom(s, c, i + 1)

Find(s, c) == FindFrom(s, c, 1)

\* Python str.split(sep) for a one-character separator: the list of the
\* pieces between the separators; a string without the separator is the
\* single piece of the list.
RECURSIVE Split(_, _)
Split(s, sep) ==
    LET i == Find(s, sep) IN
    IF i = 0 THEN <<s>>
    ELSE <<SubSeq(s, 1, i - 1)>> \o Split(SubSeq(s, i + 1, Len(s)), sep)

\* Python str.replace(old, new) for one-character old and new.
ReplaceKeep(s, old, new) == s
Replace(s, old, new) ==
    [i \in 1..Len(s) |-> IF s[i] = old THEN new ELSE s[i]]

\* ------------------------------------------------ the notebooks' text

\* catalog_name = 'tbd_ville_test'
CatalogNameLiteral ==
    <<"t", "b", "d", "_", "v", "i", "l", "l", "e", "_", "t", "e", "s", "t">>

BootcampSuffix == <<"_", "b", "o", "o", "t", "c", "a", "m", "p">>

\* current_user_id.split('@')[0].replace('.','_')+'_bootcamp'
DatabaseName(current_user_id) ==
    Replace(Split(current_user_id, "@")[1], ".", "_") \o BootcampSuffix

\* f'/FileStore/tmp/{current_user_id}/datasets/'
DatasetsLocationLocal(current_user_id) ==
    <<"/", "F", "i", "l", "e", "S", "t", "o", "r", "e", "/", "t", "m", "p", "/">>
        \o Split(current_user_id, "@")[1]
        \o <<"/", "d", "a", "t", "a", "s", "e", "t", "s", "/">>
DatasetsLocation(current_user_id) ==
    <<"/", "F", "i", "l", "e", "S", "t", "o", "r", "e", "/", "t", "m", "p", "/">>
        \o current_user_id
        \o <<"/", "d", "a", "t", "a", "s", "e", "t", "s", "/">>

\* The second argument of dbutils.fs.rm(datasets_location, True).
RmRecurseOff == FALSE
RmRecurse == TRUE

\* f'use catalog {catalog_name};'
UseCatalogStatement(catalog_name) ==
    <<"u", "s", "e", " ", "c", "a", "t", "a", "l", "o", "g", " ">>
        \o catalog_name \o <<";">>

\* f'drop database if exists {database_name} cascade;'
DropStatementPlain(database_name) ==
    <<"d", "r", "o", "p", " ", "d", "a", "t", "a", "b", "a", "s", "e", " ">>
        \o database_name
        \o <<" ", "c", "a", "s", "c", "a", "d", "e", ";">>
DropStatement(database_name) ==
    <<"d", "r", "o", "p", " ", "d", "a", "t", "a", "b", "a", "s", "e", " ",
      "i", "f", " ", "e", "x", "i", "s", "t", "s", " ">>
        \o database_name
        \o <<" ", "c", "a", "s", "c", "a", "d", "e", ";">>

\* f'Deleted data files from location: %s' %datasets_location
DeletedFilesMessage(datasets_location) ==
    <<"D", "e", "l", "e", "t", "e", "d", " ", "d", "a", "t", "a", " ",
      "f", "i", "l", "e", "s", " ", "f", "r", "o", "m", " ",
      "l", "o", "c", "a", "t", "i", "o", "n", ":", " ">> \o datasets_location

\* f'Deleted database: %s' %database_name
DeletedDatabaseMessage(database_name) ==
    <<"D", "e", "l", "e", "t", "e", "d", " ", "d", "a", "t", "a", "b", "a", "s", "e",
      ":", " ">> \o database_name

\* The statements of each notebook, in the order of the file.
Lab00UseLate ==
    << "catalog_name", "current_user_id", "database_name",
       "datasets_location", "fs_rm", "use_catalog", "database_name", "drop_database" >>
Lab00DropFirst ==
    << "catalog_name", "current_user_id", "database_name", "use_catalog",
       "database_name", "drop_database", "datasets_location", "fs_rm" >>
Lab00Program ==
    << "catalog_name", "current_user_id", "database_name", "use_catalog",
       "datasets_location", "fs_rm", "database_name", "drop_database" >>

Lab01DropFirst ==
    << "current_user_id", "database_name", "drop_database", "print_database",
       "datasets_location", "fs_rm", "print_location" >>
Lab01Program ==
    << "current_user_id", "datasets_location", "fs_rm", "print_location",
       "database_name", "drop_database", "print_database" >>

Program(v) == IF v = "lab00" THEN Lab00Program ELSE Lab01Program

Variants == {"lab00", "lab01"}


\* ------------------------------------------- the storage collaborator

\* A path taken as a directory prefix.
AsDirectory(path) == IF EndsWith(path, <<"/">>) THEN path ELSE path \o <<"/">>

\* The files a delete of path covers: the file path itself, or every file
\* below the directory path.
FsUnder(files, path) ==
    {f \in files : f = path \/ StartsWith(f, AsDirectory(path))}

\* dbutils.fs.rm(path, recurse) when the storage itself works: deleting a path
\* that does not exist is no error; a directory that holds files is deleted
\* only with recurse.
FsRmResult(files, path, recurse) ==
    IF (~recurse) /\ (\E f \in files : StartsWith(f, AsDirectory(path)))
    THEN [raised |-> "DIRECTORY_NOT_EMPTY", fs |-> files]
    ELSE [raised |-> "none", fs |-> files \ FsUnder(files, path)]

\* Every answer the storage can give: the regular one, or a failure of the
\* storage itself, which may have deleted any part of what was asked.
FsRmOutcomes(files, path, recurse) ==
    {FsRmResult(files, path, recurse)}
        \cup {[raised |-> "IO_ERROR", fs |-> files \ D] :
                D \in SUBSET FsUnder(files, path)}

\* ------------------------------------------- the catalog collaborator

\* The catalog a fresh session works in.
DefaultCatalog ==
    <<"h", "i", "v", "e", "_", "m", "e", "t", "a", "s", "t", "o", "r", "e">>

UsePrefix == <<"u", "s", "e", " ", "c", "a", "t", "a", "l", "o", "g", " ">>
DropIfExistsPrefix ==
    <<"d", "r", "o", "p", " ", "d", "a", "t", "a", "b", "a", "s", "e", " ",
      "i", "f", " ", "e", "x", "i", "s", "t", "s", " ">>
DropPrefix ==
    <<"d", "r", "o", "p", " ", "d", "a", "t", "a", "b", "a", "s", "e", " ">>
CascadeSuffix == <<" ", "c", "a", "s", "c", "a", "d", "e", ";">>

\* The kind of statement the catalog reads in a statement text.
SqlKind(stmt) ==
    IF StartsWith(stmt, UsePrefix) /\ EndsWith(stmt, <<";">>)
        THEN "use"
    ELSE IF StartsWith(stmt, DropIfExistsPrefix) /\ EndsWith(stmt, CascadeSuffix)
              /\ Len(stmt) >= Len(DropIfExistsPrefix) + Len(CascadeSuffix)
        THEN "drop_if_exists"
    ELSE IF StartsWith(stmt, DropPrefix) /\ EndsWith(stmt, CascadeSuffix)
              /\ Len(stmt) >= Len(DropPrefix) + Len(CascadeSuffix)
        THEN "drop"
    ELSE "other"

\* The name a statement text carries between its keywords.
SqlName(stmt) ==
    LET k == SqlKind(stmt) IN
    IF k = "use" THEN SubSeq(stmt, Len(UsePrefix) + 1, Len(stmt) - 1)
    ELSE IF k = "drop_if_exists"
        THEN SubSeq(stmt, Len(DropIfExistsPrefix) + 1, Len(stmt) - Len(CascadeSuffix))
    ELSE IF k = "drop"
        THEN SubSeq(stmt, Len(DropPrefix) + 1, Len(stmt) - Len(CascadeSuffix))
    ELSE <<>>

\* spark.sql(stmt) when the catalog service itself works.  A database is a
\* pair <<catalog, name>>; current is the session's current catalog.
SqlResult(stmt, current, databases, cats) ==
    LET k == SqlKind(stmt)
        n == SqlName(stmt)
    IN
    IF k = "use" THEN
        IF n \in cats
        THEN [raised |-> "none", dbs |-> databases, cur |-> n]
        ELSE [raised |-> "CATALOG_NOT_FOUND", dbs |-> databases, cur |-> current]
    ELSE IF k = "drop_if_exists" THEN
        [raised |-> "none", dbs |-> databases \ {<<current, n>>}, cur |-> current]
    ELSE IF k = "drop" THEN
        IF <<current, n>> \in databases
        THEN [raised |-> "none", dbs |-> databases \ {<<current, n>>}, cur |-> current]
        ELSE [raised |-> "SCHEMA_NOT_FOUND", dbs |-> databases, cur |-> current]
    ELSE [raised |-> "PARSE_SYNTAX_ERROR", dbs |-> databases, cur |-> current]

\* Every answer the catalog can give: the regular one, or a failure of the
\* service, which changes nothing.
SqlOutcomes(stmt, current, databases, cats) ==
    { SqlResult(stmt, current, databases, cats),
      [raised |-> "SERVICE_ERROR", dbs |-> databases, cur |-> current] }

\* Errors of the collaborators themselves, as opposed to errors a request earns.
ServiceErrors == {"IO_ERROR", "SERVICE_ERROR"}

\* --------------------------------------------------------------- state

VARIABLES
    uid,                \* [Procs -> string]: the identity the host reports to each notebook
    variant,            \* [Procs -> Variants \cup {"idle"}]: the notebook each session runs
    pc,                 \* [Procs -> Nat]: index of the next statement of the program
    runs,               \* [Procs -> Nat]: how many runs of the notebook were started
    err,                \* [Procs -> string]: the exception that ended the run, or "none"
    calls,              \* [Procs -> Seq(call)]: the collaborator calls of the current run
    out,                \* [Procs -> Seq(string)]: the lines printed by the current run
    catalog_name,       \* the Python variables of each notebook session
    current_user_id,
    database_name,
    datasets_location,
    cur,                \* [Procs -> string]: the current catalog of each Spark session
    fs,                 \* the files in storage
    dbs,                \* the databases, <<catalog, name>>
    catalogs,           \* the catalogs that exist
    fs0,                \* the files at the start
    dbs0,               \* the databases at the start
    after               \* [Procs -> Seq([err, fs, dbs])]: the state each ended run left

vars == << uid, variant, pc, runs, err, calls, out, catalog_name, current_user_id,
           database_name, datasets_location, cur, fs, dbs, catalogs, fs0, dbs0, after >>

env == << uid, variant, catalogs, fs0, dbs0 >>

Stmt(p) == Program(variant[p])[pc[p]]

ProgramOf(p) == IF variant[p] = "idle" THEN <<>> ELSE Program(variant[p])

Running(p) ==
    /\ variant[p] # "idle"
    /\ err[p] = "none"
    /\ pc[p] <= Len(ProgramOf(p))

Done(p) ==
    /\ variant[p] # "idle"
    /\ err[p] = "none"
    /\ pc[p] > Len(ProgramOf(p))

Raised(p) == variant[p] # "idle" /\ err[p] # "none"

Ended(p) == Done(p) \/ Raised(p)


\* ------------------------------------------------------- initial state

\* What the labs leave behind for identity u: a data file below the user's
\* datasets directory, and a file of the user's that is not lab data.
LabFile(u) ==
    <<"/", "F", "i", "l", "e", "S", "t", "o", "r", "e", "/", "t", "m", "p", "/">>
        \o u \o <<"/", "d", "a", "t", "a", "s", "e", "t", "s", "/", "p", "a", "r", "t", "-", "0">>

KeepFile(u) ==
    <<"/", "F", "i", "l", "e", "S", "t", "o", "r", "e", "/", "t", "m", "p", "/">>
        \o u \o <<"/", "n", "o", "t", "e", "s", ".", "t", "x", "t">>

\* A database that belongs to no lab user.
OtherDatabase == <<"o", "t", "h", "e", "r", "_", "d", "b">>

Sessions(V) == {p \in Procs : V[p] # "idle"}

\* The state before any notebook statement has run: sessions U (identities)
\* and V (notebooks); the catalogs that exist are one of CatalogChoices; the
\* storage and the catalog hold all of the lab state of the sessions' users
\* (full) or any part of it, and always the things that are not lab state.
Setup(U, V, CatalogChoices, full) ==
    /\ uid = U
    /\ variant = V
    /\ pc = [p \in Procs |-> 1]
    /\ runs = [p \in Procs |-> IF V[p] = "idle" THEN 0 ELSE 1]
    /\ err = [p \in Procs |-> "none"]
    /\ calls = [p \in Procs |-> <<>>]
    /\ out = [p \in Procs |-> <<>>]
    /\ catalog_name = [p \in Procs |-> <<>>]
    /\ current_user_id = [p \in Procs |-> <<>>]
    /\ database_name = [p \in Procs |-> <<>>]
    /\ datasets_location = [p \in Procs |-> <<>>]
    /\ cur = [p \in Procs |-> DefaultCatalog]
    /\ catalogs \in CatalogChoices
    /\ \E F \in SUBSET {LabFile(U[p]) : p \in Sessions(V)} :
          /\ full => F = {LabFile(U[p]) : p \in Sessions(V)}
          /\ fs = F \cup {KeepFile(U[p]) : p \in Sessions(V)}
    /\ \E N \in SUBSET {DatabaseName(U[p]) : p \in Sessions(V)} :
          /\ full => N = {DatabaseName(U[p]) : p \in Sessions(V)}
          /\ dbs = {<<c, n>> : c \in catalogs, n \in N \cup {OtherDatabase}}
    /\ fs0 = fs
    /\ dbs0 = dbs
    /\ after = [p \in Procs |-> <<>>]

\* The catalog of the Lab 00 notebook exists, or it does not.
AnyCatalogs == {{DefaultCatalog}, {DefaultCatalog, CatalogNameLiteral}}

\* One notebook session, any identity, either notebook.
Init ==
    \E u \in Identities, v \in Variants :
        Setup(<<u, <<>> >>, <<v, "idle">>, AnyCatalogs, FALSE)

\* Two sessions of the same identity, each running either notebook.
InitSame ==
    \E u \in Identities, v1 \in Variants, v2 \in Variants :
        Setup(<<u, u>>, <<v1, v2>>, AnyCatalogs, FALSE)

\* Two sessions of two different identities, each running either notebook,
\* in a workspace that holds every catalog and all of both users' lab state.
InitPair ==
    \E u1 \in Identities, v1 \in Variants, v2 \in Variants :
      \E u2 \in Identities \ {u1} :
        Setup(<<u1, u2>>, <<v1, v2>>, {{DefaultCatalog, CatalogNameLiteral}}, TRUE)

\* ------------------------------------------------------------- actions

\* What a statement of session p leaves of the run: the next statement, or
\* the exception e that ends the run (no statement of either notebook is
\* inside a try block); the state an ended run leaves is recorded.
PropagateSwallow(p, e, newfs, newdbs) ==
    /\ pc' = [pc EXCEPT ![p] = @ + 1]
    /\ err' = err
    /\ after' = IF pc[p] + 1 > Len(ProgramOf(p))
                THEN [after EXCEPT ![p] =
                        Append(@, [err |-> "none", fs |-> newfs, dbs |-> newdbs])]
                ELSE after
Propagate(p, e, newfs, newdbs) ==
    /\ pc' = [pc EXCEPT ![p] = IF e = "none" THEN @ + 1 ELSE @]
    /\ err' = [err EXCEPT ![p] = e]
    /\ after' = IF e # "none" \/ pc[p] + 1 > Len(ProgramOf(p))
                THEN [after EXCEPT ![p] =
                        Append(@, [err |-> e, fs |-> newfs, dbs |-> newdbs])]
                ELSE after

\* A call to a collaborator as the run's log keeps it.
Call(op, arg, recurse, raised) ==
    [op |-> op, arg |-> arg, recurse |-> recurse, raised |-> raised]

\* catalog_name = 'tbd_ville_test'
AssignCatalogName(p) ==
    /\ Running(p) /\ Stmt(p) = "catalog_name"
    /\ catalog_name' = [catalog_name EXCEPT ![p] = CatalogNameLiteral]
    /\ Propagate(p, "none", fs, dbs)
    /\ UNCHANGED << env, runs, calls, out, current_user_id, database_name,
                    datasets_location, cur, fs, dbs >>

\* current_user_id = dbutils.notebook.entry_point...userName().get()
AssignCurrentUserId(p) ==
    /\ Running(p) /\ Stmt(p) = "current_user_id"
    /\ current_user_id' = [current_user_id EXCEPT ![p] = uid[p]]
    /\ Propagate(p, "none", fs, dbs)
    /\ UNCHANGED << env, runs, calls, out, catalog_name, database_name,
                    datasets_location, cur, fs, dbs >>

\* database_name = current_user_id.split('@')[0].replace('.','_')+'_bootcamp'
AssignDatabaseName(p) ==
    /\ Running(p) /\ Stmt(p) = "database_name"
    /\ database_name' = [database_name EXCEPT ![p] = DatabaseName(current_user_id[p])]
    /\ Propagate(p, "none", fs, dbs)
    /\ UNCHANGED << env, runs, calls, out, catalog_name, current_user_id,
                    datasets_location, cur, fs, dbs >>

\* datasets_location = f'/FileStore/tmp/{current_user_id}/datasets/'
AssignDatasetsLocation(p) ==
    /\ Running(p) /\ Stmt(p) = "datasets_location"
    /\ datasets_location' =
          [datasets_location EXCEPT ![p] = DatasetsLocation(current_user_id[p])]
    /\ Propagate(p, "none", fs, dbs)
    /\ UNCHANGED << env, runs, calls, out, catalog_name, current_user_id,
                    database_name, cur, fs, dbs >>

\* spark.sql(f'use catalog {catalog_name};')
UseCatalog(p) ==
    /\ Running(p) /\ Stmt(p) = "use_catalog"
    /\ LET stmt == UseCatalogStatement(catalog_name[p]) IN
       \E r \in SqlOutcomes(stmt, cur[p], dbs, catalogs) :
          /\ calls' = [calls EXCEPT ![p] = Append(@, Call("sql", stmt, FALSE, r.raised))]
          /\ cur' = [cur EXCEPT ![p] = r.cur]
          /\ dbs' = r.dbs
          /\ Propagate(p, r.raised, fs, r.dbs)
    /\ UNCHANGED << env, runs, out, catalog_name, current_user_id, database_name,
                    datasets_location, fs >>

\* dbutils.fs.rm(datasets_location, True)
FsRm(p) ==
    /\ Running(p) /\ Stmt(p) = "fs_rm"
    /\ \E r \in FsRmOutcomes(fs, datasets_location[p], RmRecurse) :
          /\ calls' = [calls EXCEPT ![p] =
                         Append(@, Call("rm", datasets_location[p], RmRecurse, r.raised))]
          /\ fs' = r.fs
          /\ Propagate(p, r.raised, r.fs, dbs)
    /\ UNCHANGED << env, runs, out, catalog_name, current_user_id, database_name,
                    datasets_location, cur, dbs >>

\* print(f'Deleted data files from location: %s' %datasets_location)
PrintLocation(p) ==
    /\ Running(p) /\ Stmt(p) = "print_location"
    /\ out' = [out EXCEPT ![p] = Append(@, DeletedFilesMessage(datasets_location[p]))]
    /\ Propagate(p, "none", fs, dbs)
    /\ UNCHANGED << env, runs, calls, catalog_name, current_user_id, database_name,
                    datasets_location, cur, fs, dbs >>

\* spark.sql(f'drop database if exists {database_name} cascade;')
DropDatabase(p) ==
    /\ Running(p) /\ Stmt(p) = "drop_database"
    /\ LET stmt == DropStatement(database_name[p]) IN
       \E r \in SqlOutcomes(stmt, cur[p], dbs, catalogs) :
          /\ calls' = [calls EXCEPT ![p] = Append(@, Call("sql", stmt, FALSE, r.raised))]
          /\ cur' = [cur EXCEPT ![p] = r.cur]
          /\ dbs' = r.dbs
          /\ Propagate(p, r.raised, fs, r.dbs)
    /\ UNCHANGED << env, runs, out, catalog_name, current_user_id, database_name,
                    datasets_location, fs >>

\* print(f'Deleted database: %s' %database_name)
PrintDatabase(p) ==
    /\ Running(p) /\ Stmt(p) = "print_database"
    /\ out' = [out EXCEPT ![p] = Append(@, DeletedDatabaseMessage(database_name[p]))]
    /\ Propagate(p, "none", fs, dbs)
    /\ UNCHANGED << env, runs, calls, catalog_name, current_user_id, database_name,
                    datasets_location, cur, fs, dbs >>

\* The notebook is run again in the same session: the Python variables and
\* the session's current catalog stay as the last run left them.
Rerun(p) ==
    /\ Ended(p)
    /\ runs[p] < MaxRuns
    /\ runs' = [runs EXCEPT ![p] = @ + 1]
    /\ pc' = [pc EXCEPT ![p] = 1]
    /\ err' = [err EXCEPT ![p] = "none"]
    /\ calls' = [calls EXCEPT ![p] = <<>>]
    /\ out' = [out EXCEPT ![p] = <<>>]
    /\ UNCHANGED << env, catalog_name, current_user_id, database_name,
                    datasets_location, cur, fs, dbs, after >>

Step(p) ==
    \/ AssignCatalogName(p)
    \/ AssignCurrentUserId(p)
    \/ AssignDatabaseName(p)
    \/ AssignDatasetsLocation(p)
    \/ UseCatalog(p)
    \/ FsRm(p)
    \/ PrintLocation(p)
    \/ DropDatabase(p)
    \/ PrintDatabase(p)

Next == \E p \in Procs : Step(p) \/ Rerun(p)

NextOnce == \E p \in Procs : Step(p)

\* One session, run up to MaxRuns times.
Spec == Init /\ [][Next]_vars

\* Two concurrent sessions of one identity, each run once.
SpecSame == InitSame /\ [][NextOnce]_vars

\* Two concurrent sessions of two different identities, each run once.
SpecPair == InitPair /\ [][NextOnce]_vars


\* ------------------------------------------------- reading the call log

CountOf(s, c) == Cardinality({i \in 1..Len(s) : s[i] = c})

\* An identity as the data model has it: non-empty, exactly one '@'.
ValidIdentity(u) == Len(u) > 0 /\ CountOf(u, "@") = 1

IsRm(c) == c.op = "rm"
IsUse(c) == c.op = "sql" /\ StartsWith(c.arg, UsePrefix)
IsDrop(c) == c.op = "sql" /\ StartsWith(c.arg, DropPrefix)

RmCalls(p) == SelectSeq(calls[p], IsRm)
DropCalls(p) == SelectSeq(calls[p], IsDrop)

FileStorePrefix ==
    <<"/", "F", "i", "l", "e", "S", "t", "o", "r", "e", "/", "t", "m", "p", "/">>
DatasetsSuffix == <<"/", "d", "a", "t", "a", "s", "e", "t", "s", "/">>

\* ---------------------------------------------------------------- C1

\* C1 (as claimed): a session whose identity holds no '@' issues no storage
\* delete and no drop statement, in either notebook.
C1_NoAtNoBackendCall ==
    \A p \in Procs :
        (variant[p] # "idle" /\ CountOf(uid[p], "@") = 0)
            => (RmCalls(p) = <<>> /\ DropCalls(p) = <<>>)

\* ---------------------------------------------------------------- C2

\* An identity of the shape local@domain, neither part empty.
WellFormed(u) == ValidIdentity(u) /\ u[1] # "@" /\ u[Len(u)] # "@"

Succeeded(c) == c.raised = "none"
Deleted(p) == SelectSeq(RmCalls(p), Succeeded)
Dropped(p) == SelectSeq(DropCalls(p), Succeeded)

\* C2 (as claimed): of two concurrent sessions of different identities, the
\* path one deletes is not the path the other deletes nor nested in it, and
\* the database one drops is not the database the other drops.
C2_DisjointTargets ==
    \A p \in Procs, q \in Procs :
        (p # q /\ uid[p] # uid[q] /\ WellFormed(uid[p]) /\ WellFormed(uid[q]))
            => /\ \A i \in 1..Len(Deleted(p)), j \in 1..Len(Deleted(q)) :
                    ~StartsWith(Deleted(p)[i].arg, Deleted(q)[j].arg)
               /\ \A i \in 1..Len(Dropped(p)), j \in 1..Len(Dropped(q)) :
                    <<cur[p], SqlName(Dropped(p)[i].arg)>>
                        # <<cur[q], SqlName(Dropped(q)[j].arg)>>

\* ---------------------------------------------------------------- C3

\* What a call asks for, without how it ended.
Request(c) == <<c.op, c.arg, c.recurse>>

Requests(p) == [i \in 1..Len(calls[p]) |-> Request(calls[p][i])]

IsPrefixOf(s, t) == Len(s) <= Len(t) /\ s = SubSeq(t, 1, Len(s))

\* The two requests of the claim for identity u.
Lab01Requests(u) ==
    << <<"rm", DatasetsLocation(u), TRUE>>,
       <<"sql", DropIfExistsPrefix \o DatabaseName(u) \o CascadeSuffix, FALSE>> >>

\* C3: a run of the Lab 01 notebook (no catalog) for a valid identity issues
\* the recursive delete of the identity's dataset path, then the statement
\* `drop database if exists <name> cascade;`, and nothing else: at every
\* moment the calls issued are the first calls of that list, and a run that
\* completed has issued exactly both.
C3_DeleteThenDrop ==
    \A p \in Procs :
        (variant[p] = "lab01" /\ ValidIdentity(uid[p]))
            => /\ IsPrefixOf(Requests(p), Lab01Requests(uid[p]))
               /\ Done(p) => Requests(p) = Lab01Requests(uid[p])

C3_Witness ==
    \E p \in Procs :
        /\ variant[p] = "lab01" /\ ValidIdentity(uid[p]) /\ Done(p)
        /\ Len(calls[p]) = 2
        /\ calls[p][1].op = "rm" /\ calls[p][2].op = "sql"

\* ---------------------------------------------------------------- C4

\* The name the claim gives identity u (exactly one '@'): the characters
\* before the '@', each '.' turned into '_', then `_bootcamp`.
IsWorkspaceNameOf(n, u) ==
    LET at == CHOOSE i \in 1..Len(u) : u[i] = "@" IN
    /\ Len(n) = (at - 1) + 9
    /\ \A i \in 1..(at - 1) : n[i] = (IF u[i] = "." THEN "_" ELSE u[i])
    /\ SubSeq(n, at, Len(n)) = <<"_", "b", "o", "o", "t", "c", "a", "m", "p">>

\* C4: for a valid identity, the database named in every drop statement, of
\* either notebook, is the local part with '.' replaced by '_' followed by
\* `_bootcamp`.
C4_DatabaseName ==
    \A p \in Procs :
        ValidIdentity(uid[p]) =>
            \A i \in 1..Len(DropCalls(p)) :
                IsWorkspaceNameOf(SqlName(DropCalls(p)[i].arg), uid[p])

C4_Witness ==
    \E p \in Procs :
        /\ ValidIdentity(uid[p])
        /\ uid[p][1] = "." /\ uid[p][2] = "@"
        /\ Len(DropCalls(p)) = 1
        /\ SqlName(DropCalls(p)[1].arg) = <<"_", "_", "b", "o", "o", "t", "c", "a", "m", "p">>


\* ---------------------------------------------------------------- C5

\* The catalog a notebook's drop statement works in.
TargetCatalog(v) == IF v = "lab00" THEN CatalogNameLiteral ELSE DefaultCatalog

\* The state one run for identity u of notebook v produces from the state at
\* the start: nothing below the dataset path, the database absent, everything
\* else as it was.
CleanedFs(u) ==
    {f \in fs0 : ~StartsWith(f, FileStorePrefix \o u \o DatasetsSuffix)}
CleanedDbs(u, v) ==
    {d \in dbs0 : d # <<TargetCatalog(v), DatabaseName(u)>>}

\* C5: two concurrent sessions of the same identity running the same
\* notebook, under every interleaving: no session ends with an error other
\* than a failure of a collaborator itself (or the Lab 00 catalog not
\* existing), and once both have completed the storage and the catalog are
\* in the state a single run produces.
C5_SameIdentityRace ==
    (variant[1] = variant[2] /\ variant[1] # "idle" /\ uid[1] = uid[2])
        => /\ \A p \in Procs :
                \/ err[p] \in {"none"} \cup ServiceErrors
                \/ err[p] = "CATALOG_NOT_FOUND" /\ CatalogNameLiteral \notin catalogs
           /\ (Done(1) /\ Done(2))
                => /\ fs = CleanedFs(uid[1])
                   /\ dbs = CleanedDbs(uid[1], variant[1])

C5_Witness ==
    /\ variant[1] = "lab01" /\ variant[2] = "lab01" /\ uid[1] = uid[2]
    /\ ValidIdentity(uid[1])
    /\ Done(1) /\ Done(2)
    /\ Len(calls[1]) = 2 /\ Len(calls[2]) = 2
    /\ fs # fs0 /\ dbs # dbs0

\* ---------------------------------------------------------------- C6

\* C6: when a run has completed without error, the next run of the same
\* notebook for the same identity ends with no error of its own (only a
\* failure of a collaborator itself can end it), and when it completes it
\* leaves the storage and the catalog as the first run left them, with no
\* file below the dataset path.
C6_Idempotent ==
    \A p \in Procs :
        \A k \in 1..(Len(after[p]) - 1) :
            after[p][k].err = "none"
                => /\ after[p][k + 1].err \in {"none"} \cup ServiceErrors
                   /\ after[p][k + 1].err = "none"
                        => /\ after[p][k + 1].fs = after[p][k].fs
                           /\ after[p][k + 1].dbs = after[p][k].dbs
                           /\ \A f \in after[p][k + 1].fs :
                                ~StartsWith(f, FileStorePrefix \o uid[p] \o DatasetsSuffix)

C6_Witness ==
    \E p \in Procs :
        /\ Len(after[p]) = 2
        /\ after[p][1].err = "none" /\ after[p][2].err = "none"
        /\ after[p][1].fs # fs0 /\ after[p][1].dbs # dbs0
        /\ Done(p) /\ Len(calls[p]) >= 2

\* ---------------------------------------------------------------- C7

\* C7: in every run, no request is issued twice; a call that raised is the
\* last call of the run and the run has ended with exactly that error (so no
\* drop follows a delete that raised, nothing follows a drop that raised, and
\* the run is not a completed one); a run ends with an error only so.
C7_NoRetryNoRecovery ==
    \A p \in Procs :
        /\ \A i \in 1..Len(calls[p]), j \in 1..Len(calls[p]) :
                Request(calls[p][i]) = Request(calls[p][j]) => i = j
        /\ \A i \in 1..Len(calls[p]) :
                calls[p][i].raised # "none"
                    => /\ i = Len(calls[p])
                       /\ err[p] = calls[p][i].raised
                       /\ ~Done(p)
        /\ err[p] # "none"
                => /\ calls[p] # <<>>
                   /\ calls[p][Len(calls[p])].raised = err[p]

C7_Witness ==
    \E p \in Procs :
        /\ Raised(p)
        /\ Len(calls[p]) = 1
        /\ calls[p][1].op = "rm" /\ calls[p][1].raised = "IO_ERROR"
        /\ pc[p] <= Len(ProgramOf(p))

\* ---------------------------------------------------------------- C8

\* C8: in the Lab 00 notebook the first call of every run is the statement
\* `use catalog tbd_ville_test;`, so it precedes the delete and the drop; when
\* it raises, it is the only call of the run.
C8_UseCatalogFirst ==
    \A p \in Procs :
        (variant[p] = "lab00" /\ calls[p] # <<>>)
            => /\ Request(calls[p][1]) =
                    <<"sql", UsePrefix \o CatalogNameLiteral \o <<";">>, FALSE>>
               /\ calls[p][1].raised # "none" => Len(calls[p]) = 1
               /\ \A i \in 2..Len(calls[p]) : ~IsUse(calls[p][i])

C8_Witness ==
    \E p \in Procs :
        /\ variant[p] = "lab00"
        /\ Raised(p) /\ err[p] = "CATALOG_NOT_FOUND"
        /\ Len(calls[p]) = 1 /\ IsUse(calls[p][1])
        /\ fs = fs0 /\ dbs = dbs0

\* ---------------------------------------------------------------- C9

\* C9: for a valid identity, every storage delete, of either notebook, is
\* recursive and its path is `/FileStore/tmp/`, then the identity character
\* for character, then `/datasets/`.
C9_DatasetPath ==
    \A p \in Procs :
        ValidIdentity(uid[p]) =>
            \A i \in 1..Len(RmCalls(p)) :
                LET c == RmCalls(p)[i]
                    n == Len(uid[p])
                IN
                /\ c.recurse = TRUE
                /\ Len(c.arg) = 15 + n + 10
                /\ SubSeq(c.arg, 1, 15) = FileStorePrefix
                /\ \A k \in 1..n : c.arg[15 + k] = uid[p][k]
                /\ SubSeq(c.arg, 15 + n + 1, 15 + n + 10) = DatasetsSuffix

C9_Witness ==
    \E p \in Procs :
        /\ uid[p] = <<".", "@", "a">>
        /\ Len(RmCalls(p)) = 1
        /\ RmCalls(p)[1].arg = FileStorePrefix \o <<".", "@", "a">> \o DatasetsSuffix

\* --------------------------------------------------------------- C10

\* The delete and drop requests of a run, the `use catalog` statement left out.
IsNotUse(c) == ~IsUse(c)
CleanupRequests(p) ==
    LET cs == SelectSeq(calls[p], IsNotUse) IN
    [i \in 1..Len(cs) |-> Request(cs[i])]

\* A pattern of success and failure: which kinds of call raise.
CallKinds == {"use", "rm", "drop"}
Patterns == [CallKinds -> BOOLEAN]
KindOf(c) == IF IsRm(c) THEN "rm" ELSE IF IsUse(c) THEN "use" ELSE "drop"

\* The run of p went as pattern f says.
Follows(p, f) ==
    \A i \in 1..Len(calls[p]) : (calls[p][i].raised # "none") = f[KindOf(calls[p][i])]

BothVariantsEnded ==
    /\ variant[1] = "lab00" /\ variant[2] = "lab01"
    /\ uid[1] = uid[2]
    /\ Ended(1) /\ Ended(2)

\* C10 (as claimed): for every identity and every pattern of success and
\* failure, the delete and drop requests of a Lab 00 run equal those of a
\* Lab 01 run.
C10_SameCleanupRequests ==
    \A f \in Patterns :
        (BothVariantsEnded /\ Follows(1, f) /\ Follows(2, f))
            => CleanupRequests(1) = CleanupRequests(2)

\* C10 (amended): the same, for every pattern in which the `use catalog`
\* statement does not raise.
C10_SameCleanupRequestsAfterUse ==
    \A f \in Patterns :
        (BothVariantsEnded /\ Follows(1, f) /\ Follows(2, f) /\ ~f["use"])
            => CleanupRequests(1) = CleanupRequests(2)

C10_Witness ==
    /\ BothVariantsEnded
    /\ Len(calls[1]) = 3 /\ Len(calls[2]) = 2
    /\ calls[1][1].raised = "none" /\ calls[1][2].raised = "none"
    /\ calls[1][3].raised = "SERVICE_ERROR"
    /\ calls[2][1].raised = "none" /\ calls[2][2].raised = "SERVICE_ERROR"
    /\ CleanupRequests(1) = CleanupRequests(2)

=============================================================================
